---- MODULE Spec2Model ----
(***************************************************************************)
(* Model of signalk-redhead-daq (src/index.js): a Signal K plugin that     *)
(* polls http://<address>/state.xml on a repeating timer, translates the   *)
(* received records into path/value observations and raises/clears the     *)
(* notifications.redhead.daqUnavailable alarm.                             *)
(*                                                                         *)
(* JavaScript values: `undefined` is the string "undefined"; the flag      *)
(* sentUnavailableAlarm takes the values "undefined", "true", "false".     *)
(* An object is a record; an absent property is a field outside DOMAIN.    *)
(* A response body is the text the server sent: `request` is called        *)
(* without json: true (lines 74-76) and hands the callback a string.       *)
(* A quotient a / b of numbers is the record [num |-> a, den |-> b].       *)
(***************************************************************************)
EXTENDS Integers, Sequences, FiniteSets, TLC

\* ---------------------------------------------------------------- bounds
MaxStarts == 2      \* plugin.start calls in one behaviour
MaxRequests == 3    \* requests issued in one behaviour
MaxRecords == 1     \* records in one received body

\* ------------------------------------------------------------- constants
UNDEFINED == "undefined"

base == "electrical.switches.hue"

alarmPath == "notifications.redhead.daqUnavailable"

pluginId == "signalk-redhead-daq"

DefaultRefreshRate == 5

\* --------------------------------------------------------------- inputs
Addresses == {"10.0.0.7"}

RefreshRates == {0, 2}

\* props handed to plugin.start: refreshRate is optional (schema, line 190)
Props == [address : Addresses] \cup [address : Addresses, refreshRate : RefreshRates]

\* error.message of a transport error delivered by `request`
ErrorMessages == {"ECONNREFUSED"}

\* response.statusCode of a response that is not 200
BadStatusCodes == {500}

\* What the free identifiers of index.js resolve to in the host's global
\* scope: `load` (line 66) and `hueType` (lines 94, 98) are declared nowhere
\* in the file.  load = FALSE: unbound, as in a plain Node process, and the
\* call throws ReferenceError; no timer is ever armed then.  load = TRUE: the
\* global scope binds it to some function of the host.
GlobalScopes == [load : BOOLEAN, hueType : {"<unbound>", "lights", "groups"}]

\* The host application: which of the optional status hooks it has
\* (lines 34, 40)
Apps == [setProviderStatus : BOOLEAN, setProviderError : BOOLEAN]

VARIABLES
  globals,               \* binding of the free identifiers (fixed)
  app,                   \* host capabilities (fixed)
  onStop,                \* line 30: sequence of timer ids to clear
  statusMessage,         \* line 31
  sentUnavailableAlarm,  \* line 32
  timers,                \* setInterval timers: id -> [armed, ip]
  inflight,              \* requests issued and not yet answered, counted per address
  nRequests,             \* requests issued so far
  nStarts,               \* plugin.start calls so far
  providerStatus,        \* what the host was last told through its hooks
  alive,                 \* the process is running
  stopped,               \* plugin.stop returned and plugin.start was not called since
  calls,                 \* app.handleMessage calls made by the latest step
  errors,                \* app.error calls made by the latest step
  prevAlarm,             \* state of the last alarm observation published before
                         \* the latest step ("none": there was none)
  last,                  \* what the latest step was
  hist                   \* history kept when hist.on: runFailed, a failed answer
                         \* arrived since the latest plugin.start; nAlerts and
                         \* nNormals, the "alert" and "normal" alarm observations
                         \* published so far

vars == <<globals, app, onStop, statusMessage, sentUnavailableAlarm, timers,
          inflight, nRequests, nStarts, providerStatus, alive, stopped,
          calls, errors, prevAlarm, last, hist>>

\* ------------------------------------------------------------ JS helpers
Has(obj, f) == f \in DOMAIN obj

\* truthiness of the flag sentUnavailableAlarm
Truthy(v) == v = "true"

\* op: the step; kind, pre, thrown: the answer, the flag before it and the
\* exception of a callback; afterStop: a stop that found the plugin stopped;
\* issued: the step issued a request; period: the interval, in milliseconds,
\* of the timer the step armed; body: the text a callback received
NoStep == [op |-> "init", kind |-> "none", pre |-> UNDEFINED, thrown |-> "none",
           afterStop |-> FALSE, issued |-> FALSE, period |-> 0, body |-> ""]

\* ------------------------------------------------------------- alarms
\* getAlarmDelta(app, path, state, message), lines 203-221
getAlarmDelta(path, state, message) ==
  [updates |-> <<[values |-> <<[path |-> path,
                                value |-> [state |-> state,
                                           method |-> <<"visual", "sound">>,
                                           message |-> message]]>>]>>]

IsAlarm(call) == call.delta.updates[1].values[1].path = alarmPath

AlarmState(call) == call.delta.updates[1].values[1].value.state

AlarmMessage(call) == call.delta.updates[1].values[1].value.message

Alarms(cs) == SelectSeq(cs, IsAlarm)

RECURSIVE AlarmStates(_)
AlarmStates(cs) ==
  IF cs = <<>> THEN <<>>
  ELSE (IF IsAlarm(Head(cs)) THEN <<AlarmState(Head(cs))>> ELSE <<>>) \o AlarmStates(Tail(cs))

\* how many elements of a sequence equal x
Count(seq, x) == Cardinality({i \in 1..Len(seq) : seq[i] = x})

\* the stream of alarm states from the last alarm before the latest step on
AlarmStream == (IF prevAlarm = "none" THEN <<>> ELSE <<prevAlarm>>) \o AlarmStates(calls)

\* state of the last alarm observation published so far
LastAlarm == IF AlarmStream = <<>> THEN "none" ELSE AlarmStream[Len(AlarmStream)]

\* ------------------------------------------------------------------ Init
Init ==
  /\ globals \in GlobalScopes
  /\ app \in Apps
  /\ onStop = <<>>
  /\ statusMessage = UNDEFINED
  /\ sentUnavailableAlarm = UNDEFINED
  /\ timers = <<>>
  /\ inflight = [ip \in Addresses |-> 0]
  /\ nRequests = 0
  /\ nStarts = 0
  /\ providerStatus = [kind |-> "none", msg |-> UNDEFINED]
  /\ alive = TRUE
  /\ stopped = FALSE
  /\ calls = <<>>
  /\ errors = <<>>
  /\ prevAlarm = "none"
  /\ last = NoStep
  /\ hist \in [on : BOOLEAN, runFailed : {FALSE}, nAlerts : {0}, nNormals : {0}]

\* --------------------------------------------------------- start / stop
\* (props.refreshRate || 5) * 1000, line 69
Period(props) ==
  IF Has(props, "refreshRate") /\ props.refreshRate # 0
  THEN props.refreshRate * 1000
  ELSE DefaultRefreshRate * 1000

\* startLoading(props, ip), lines 65-71.  Line 66 calls `load`, which the
\* file does not define: unbound it throws ReferenceError before setInterval;
\* bound, it is a function of the host that cannot reach the closure.
startLoading(props, ip) ==
  IF ~globals.load
  THEN /\ UNCHANGED <<timers, onStop>>
       /\ last' = [NoStep EXCEPT !.op = "start", !.thrown = "ReferenceError"]
  ELSE /\ timers' = Append(timers, [armed |-> TRUE, ip |-> ip])
       /\ onStop' = Append(onStop, Len(timers) + 1)
       /\ last' = [NoStep EXCEPT !.op = "start", !.period = Period(props)]

\* variant: plugin.start resets the flag
startResetting(props) ==
  /\ alive
  /\ nStarts < MaxStarts
  /\ nStarts' = nStarts + 1
  /\ startLoading(props, props.address)
  /\ stopped' = FALSE
  /\ calls' = <<>>
  /\ errors' = <<>>
  /\ prevAlarm' = LastAlarm
  /\ hist' = [hist EXCEPT !.runFailed = FALSE]
  /\ sentUnavailableAlarm' = "false"
  /\ UNCHANGED <<globals, app, statusMessage, inflight,
                 nRequests, providerStatus, alive>>

\* plugin.start(props), lines 46-48
start(props) ==
  /\ alive
  /\ nStarts < MaxStarts
  /\ nStarts' = nStarts + 1
  /\ startLoading(props, props.address)
  /\ stopped' = FALSE
  /\ calls' = <<>>
  /\ errors' = <<>>
  /\ prevAlarm' = LastAlarm
  /\ hist' = [hist EXCEPT !.runFailed = FALSE]
  /\ UNCHANGED <<globals, app, statusMessage, sentUnavailableAlarm, inflight,
                 nRequests, providerStatus, alive>>

\* variant: only the handler registered last is run
ClearedLastOnly(handlers) ==
  IF handlers = <<>> THEN {} ELSE {handlers[Len(handlers)]}

\* the ids whose handler is in onStop
Cleared(handlers) == {handlers[i] : i \in 1..Len(handlers)}

\* plugin.stop(), lines 54-56: every handler runs clearInterval(timer)
stop ==
  /\ alive
  /\ timers' = [i \in 1..Len(timers) |->
                  IF i \in Cleared(onStop) THEN [timers[i] EXCEPT !.armed = FALSE]
                  ELSE timers[i]]
  /\ stopped' = TRUE
  /\ calls' = <<>>
  /\ errors' = <<>>
  /\ last' = [NoStep EXCEPT !.op = "stop", !.afterStop = stopped]
  /\ prevAlarm' = LastAlarm
  /\ UNCHANGED <<globals, app, onStop, statusMessage, sentUnavailableAlarm,
                 inflight, nRequests, nStarts, providerStatus, alive, hist>>

\* --------------------------------------------------------------- request
\* loadInfo(props, ip), lines 73-76: the request is issued; its callback
\* runs when the answer arrives (action respond)
loadInfo(ip) ==
  /\ nRequests' = nRequests + 1
  /\ inflight' = [inflight EXCEPT ![ip] = @ + 1]

\* the setInterval callback of timer t fires, lines 67-69
fire(t) ==
  /\ alive
  /\ timers[t].armed
  /\ nRequests < MaxRequests
  /\ loadInfo(timers[t].ip)
  /\ calls' = <<>>
  /\ errors' = <<>>
  /\ last' = [NoStep EXCEPT !.op = "fire", !.issued = TRUE]
  /\ prevAlarm' = LastAlarm
  /\ UNCHANGED <<globals, app, onStop, statusMessage, sentUnavailableAlarm,
                 timers, nStarts, providerStatus, alive, stopped, hist>>

\* ------------------------------------------------------------ payloads
\* light-like records a server serializes into the body it sends
Lamp1 == [name |-> "Lamp1", modelid |-> "LCT001",
          state |-> [on |-> TRUE, bri |-> 128, colormode |-> "hs", hue |-> 10000, sat |-> 200]]

LivingRoom == [name |-> "Living Room",
               state |-> [any_on |-> FALSE],
               action |-> [bri |-> 200, colormode |-> "ct", ct |-> 250]]

\* a record without `state`
Bare == [name |-> "Bare", modelid |-> "LWB004"]

\* a colormode outside colorModeMap, a hue of 0, and an xy pair
Strip == [name |-> "Strip", modelid |-> "LST002",
          state |-> [on |-> FALSE, bri |-> 0, colormode |-> "effect", hue |-> 0, sat |-> 254,
                     xy |-> <<"0.4573", "0.41">>]]

\* a colour temperature without a colormode
Bulb == [name |-> "Bulb", modelid |-> "LTW001",
         state |-> [on |-> TRUE, bri |-> 254, ct |-> 366]]

\* a colormode that is the name of a member of Object.prototype
Panel == [name |-> "Panel", modelid |-> "LCX004",
          state |-> [on |-> TRUE, bri |-> 255, colormode |-> "constructor"]]

Lights == {Lamp1, LivingRoom, Bare}

\* the records of the translation checks
RecordLights == Lights \cup {Strip, Bulb, Panel}

RECURSIVE SeqsUpTo(_, _)
SeqsUpTo(S, n) ==
  IF n = 0 THEN {<<>>}
  ELSE LET shorter == SeqsUpTo(S, n - 1)
       IN shorter \cup {Append(q, x) : q \in {r \in shorter : Len(r) = n - 1}, x \in S}

\* the text of one record
JsonOf(light) ==
  CASE light = Lamp1 ->
         "{\"name\":\"Lamp1\",\"modelid\":\"LCT001\",\"state\":{\"on\":true,\"bri\":128,"
         \o "\"colormode\":\"hs\",\"hue\":10000,\"sat\":200}}"
    [] light = LivingRoom ->
         "{\"name\":\"Living Room\",\"state\":{\"any_on\":false},"
         \o "\"action\":{\"bri\":200,\"colormode\":\"ct\",\"ct\":250}}"
    [] light = Bare -> "{\"name\":\"Bare\",\"modelid\":\"LWB004\"}"
    [] light = Strip ->
         "{\"name\":\"Strip\",\"modelid\":\"LST002\",\"state\":{\"on\":false,\"bri\":0,"
         \o "\"colormode\":\"effect\",\"hue\":0,\"sat\":254,\"xy\":[0.4573,0.41]}}"
    [] light = Bulb ->
         "{\"name\":\"Bulb\",\"modelid\":\"LTW001\",\"state\":{\"on\":true,\"bri\":254,\"ct\":366}}"
    [] light = Panel ->
         "{\"name\":\"Panel\",\"modelid\":\"LCX004\",\"state\":{\"on\":true,\"bri\":255,"
         \o "\"colormode\":\"constructor\"}}"

\* "1":<record>,"2":<record>,... of the records from i on
RECURSIVE JsonMembers(_, _)
JsonMembers(records, i) ==
  IF i > Len(records) THEN ""
  ELSE "\"" \o ToString(i) \o "\":" \o JsonOf(records[i])
       \o (IF i < Len(records) THEN "," ELSE "") \o JsonMembers(records, i + 1)

\* the text a server sends for the records, in key order
JsonText(records) == "{" \o JsonMembers(records, 1) \o "}"

\* the records a server may serialize
RecordSeqs == SeqsUpTo(Lights, MaxRecords)

\* bodies as the callback gets them: an empty text, or the text of records
Bodies == {""} \cup {JsonText(b) : b \in RecordSeqs}

\* what `request` hands to the callback: a transport error (no response),
\* or a response with its status code and body (error is null)
Answers ==
  [error : [message : ErrorMessages]]
  \cup [response : [statusCode : BadStatusCodes], body : {""}]
  \cup [response : [statusCode : {200}], body : Bodies]

RecordLightSeqs == SeqsUpTo(RecordLights, MaxRecords)

RecordBodies == {""} \cup {JsonText(b) : b \in RecordLightSeqs}

\* the same answers, their bodies drawn from RecordLights
RecordAnswers ==
  [error : [message : ErrorMessages]]
  \cup [response : [statusCode : BadStatusCodes], body : {""}]
  \cup [response : [statusCode : {200}], body : RecordBodies]

\* ---------------------------------------------------------- translation
\* camelCase(displayName) of the camelcase package, on the names above (a
\* displayName that is undefined throws TypeError, see Translate)
camelCase(name) ==
  CASE name = "Lamp1" -> "lamp1"
    [] name = "Living Room" -> "livingRoom"
    [] name = "Bare" -> "bare"
    [] name = "Strip" -> "strip"
    [] name = "Bulb" -> "bulb"
    [] name = "Panel" -> "panel"

\* the function members of Object.prototype, which the object literal of
\* lines 22-26 inherits
ObjectPrototypeFunctions ==
  {"constructor", "hasOwnProperty", "isPrototypeOf", "propertyIsEnumerable",
   "toLocaleString", "toString", "valueOf", "__defineGetter__",
   "__defineSetter__", "__lookupGetter__", "__lookupSetter__"}

\* Object.prototype[key], a value written as String(value) writes it: the
\* constructor member is the function Object, every other function member
\* is named by its key, and __proto__ is Object.prototype itself
ObjectPrototype(key) ==
  CASE key = "constructor" -> "function Object() { [native code] }"
    [] key \in ObjectPrototypeFunctions \ {"constructor"} ->
         "function " \o key \o "() { [native code] }"
    [] key = "__proto__" -> "[object Object]"
    [] OTHER -> UNDEFINED

\* colorModeMap[state.colormode], lines 22-26 and 129: an own property, or
\* else the lookup goes up the prototype chain
colorModeMap(mode) ==
  CASE mode = "hs" -> "hsb"
    [] mode = "ct" -> "temperature"
    [] mode = "xy" -> "cie"
    [] OTHER -> ObjectPrototype(mode)

\* obj.f of an object that exists
Get(obj, f) == IF Has(obj, f) THEN obj[f] ELSE UNDEFINED

\* truthiness of a numeric property: present and not 0
TruthyNum(obj, f) == Has(obj, f) /\ obj[f] # 0

\* truthiness of a string property: present and not ""
TruthyStr(obj, f) == Has(obj, f) /\ obj[f] # ""

\* obj.f / den: NaN when the property is absent
Quot(obj, f, scale, den) ==
  IF Has(obj, f) THEN [num |-> obj[f] * scale, den |-> den] ELSE "NaN"

\* lines 126-156: the colour observations of a record
ColorValues(path, state) ==
  IF ~TruthyStr(state, "colormode") THEN <<>>
  ELSE <<[path |-> path \o ".colorMode", value |-> colorModeMap(state.colormode)]>>
       \o (IF TruthyNum(state, "hue") /\ TruthyNum(state, "sat")
           THEN <<[path |-> path \o ".hue", value |-> Quot(state, "hue", 100, 18204 * 360)],
                  [path |-> path \o ".saturation", value |-> Quot(state, "sat", 1, 255)]>>
           ELSE <<>>)
       \o (IF TruthyNum(state, "ct")
           THEN <<[path |-> path \o ".temperature",
                   value |-> [num |-> 1000000, den |-> state.ct]]>>
           ELSE <<>>)
       \o (IF Has(state, "xy")
           THEN <<[path |-> path \o ".cie", value |-> [x |-> state.xy[1], y |-> state.xy[2]]]>>
           ELSE <<>>)

\* lines 106-124: the observations every record gets
BaseValues(path, light, state, on) ==
  <<[path |-> path \o ".state", value |-> on],
    [path |-> path \o ".dimmingLevel", value |-> Quot(state, "bri", 1, 255)],
    [path |-> path \o ".meta",
     value |-> [type |-> "dimmer", displayName |-> light.name,
                hueModel |-> Get(light, "modelid"), canDimWhenOff |-> FALSE]]>>

\* lines 92-164 for one element body[key]: the exception it throws, or the
\* delta it hands to app.handleMessage.  Line 94 reads hueType and then
\* calls camelCase(light.name), which throws TypeError for undefined.
Translate(light) ==
  IF globals.hueType = "<unbound>"
  THEN [thrown |-> "ReferenceError"]                        \* line 94
  ELSE IF ~Has(light, "name")
  THEN [thrown |-> "TypeError"]                             \* line 94
  ELSE IF ~Has(light, "state")
  THEN [thrown |-> "TypeError"]                             \* lines 100, 103
  ELSE IF globals.hueType = "groups" /\ ~Has(light, "action")
  THEN [thrown |-> "TypeError"]                             \* line 113
  ELSE LET path == base \o "." \o globals.hueType \o "." \o camelCase(light.name)
           state == IF globals.hueType = "groups" THEN light.action ELSE light.state
           on == IF globals.hueType = "groups" THEN Get(light.state, "any_on")
                 ELSE Get(light.state, "on")
       IN [thrown |-> "none",
           delta |-> [updates |-> <<[values |-> BaseValues(path, light, state, on)
                                               \o ColorValues(path, state)]>>]]

\* the element body[key] of a text, line 92: a one-character string, which
\* has a length and none of name, modelid, state, action
Element(body, i) == [length |-> 1, char |-> SubSeq(body, i, i)]

\* _.keys(body).forEach(...), lines 91-165, from key i on: the keys of a
\* text are its character indices; the calls made until an element throws
RECURSIVE forEachKey(_, _)
forEachKey(body, i) ==
  IF i > Len(body) THEN [thrown |-> "none", calls |-> <<>>]
  ELSE LET t == Translate(Element(body, i))
       IN IF t.thrown # "none" THEN [thrown |-> t.thrown, calls |-> <<>>]
          ELSE LET rest == forEachKey(body, i + 1)
               IN [thrown |-> rest.thrown,
                   calls |-> <<[id |-> pluginId, delta |-> t.delta]>> \o rest.calls]

\* ------------------------------------------------------------- callback
\* line 78: !error && response.statusCode === 200
Succeeded(ans) == ~Has(ans, "error") /\ ans.response.statusCode = 200

\* setProviderStatus(msg), lines 34-38
setProviderStatus(msg, told) ==
  [statusMessage |-> msg,
   providerStatus |-> IF app.setProviderStatus THEN [kind |-> "status", msg |-> msg]
                      ELSE told]

\* setProviderError(msg), lines 40-44
setProviderError(msg, told) ==
  [statusMessage |-> "error: " \o msg,
   providerStatus |-> IF app.setProviderError THEN [kind |-> "error", msg |-> msg]
                      ELSE told]

\* printRequestError(error, response), lines 58-63: error.message of a null
\* error throws TypeError before anything is set
printRequestError(ans, status, told) ==
  IF ~Has(ans, "error")
  THEN [statusMessage |-> status, providerStatus |-> told, errors |-> <<>>,
        thrown |-> "TypeError"]
  ELSE LET set == setProviderError(ans.error.message, told)
       IN [statusMessage |-> set.statusMessage, providerStatus |-> set.providerStatus,
           errors |-> <<"error: " \o ans.error.message>>, thrown |-> "none"]

\* variant: the alarm is cleared but the flag is left set
clearAlarmKeepFlag(sent) ==
  IF Truthy(sent)
  THEN [sent |-> sent,
        calls |-> <<[id |-> pluginId,
                     delta |-> getAlarmDelta(alarmPath, "normal",
                                             "The DAQ module is now available")]>>]
  ELSE [sent |-> sent, calls |-> <<>>]

\* variant: every successful answer publishes the "normal" alarm
clearAlarmAlways(sent) ==
  [sent |-> "false",
   calls |-> <<[id |-> pluginId,
                delta |-> getAlarmDelta(alarmPath, "normal",
                                        "The DAQ module is now available")]>>]

\* lines 81-88: the flag and the alarm call of a successful answer
clearAlarm(sent) ==
  IF Truthy(sent)
  THEN [sent |-> "false",
        calls |-> <<[id |-> pluginId,
                     delta |-> getAlarmDelta(alarmPath, "normal",
                                             "The DAQ module is now available")]>>]
  ELSE [sent |-> sent, calls |-> <<>>]

\* variant: the flag is set only when it was never set before
raiseAlarmOnce(sent) ==
  [sent |-> IF sent = UNDEFINED THEN "true" ELSE sent,
   calls |-> <<[id |-> pluginId,
                delta |-> getAlarmDelta(alarmPath, "alert",
                                        "The DAQ module is unavailable")]>>]

\* variant: the alarm is raised but the flag is not set
raiseAlarmNoFlag(sent) ==
  [sent |-> sent,
   calls |-> <<[id |-> pluginId,
                delta |-> getAlarmDelta(alarmPath, "alert",
                                        "The DAQ module is unavailable")]>>]

\* lines 167-172: the flag and the alarm call of a failed answer
raiseAlarm(sent) ==
  [sent |-> "true",
   calls |-> <<[id |-> pluginId,
                delta |-> getAlarmDelta(alarmPath, "alert",
                                        "The DAQ module is unavailable")]>>]

\* the request callback, lines 77-175, as the state it leaves
callback(ip, ans, sent, status, told) ==
  IF Succeeded(ans)
  THEN LET set == setProviderStatus("Connected to " \o ip, told)
           alarm == clearAlarm(sent)
           each == forEachKey(ans.body, 1)
       IN [statusMessage |-> set.statusMessage, providerStatus |-> set.providerStatus,
           sent |-> alarm.sent, calls |-> alarm.calls \o each.calls,
           errors |-> <<>>, thrown |-> each.thrown]
  ELSE LET alarm == raiseAlarm(sent)
           printed == printRequestError(ans, status, told)
       IN [statusMessage |-> printed.statusMessage,
           providerStatus |-> printed.providerStatus,
           sent |-> alarm.sent, calls |-> alarm.calls,
           errors |-> printed.errors, thrown |-> printed.thrown]

AnswerKind(ans) ==
  IF Has(ans, "error") THEN "transport"
  ELSE IF ans.response.statusCode = 200 THEN "ok" ELSE "status"

\* the answer to a request to ip arrives and its callback runs; an exception
\* that escapes the callback ends the process (Node's default) unless the
\* host handles uncaught exceptions: either may be the case
respond(ip, ans) ==
  /\ alive
  /\ inflight[ip] > 0
  /\ inflight' = [inflight EXCEPT ![ip] = @ - 1]
  /\ LET res == callback(ip, ans, sentUnavailableAlarm, statusMessage, providerStatus)
     IN /\ statusMessage' = res.statusMessage
        /\ providerStatus' = res.providerStatus
        /\ sentUnavailableAlarm' = res.sent
        /\ calls' = res.calls
        /\ errors' = res.errors
        /\ prevAlarm' = LastAlarm
        /\ hist' = IF ~hist.on THEN hist
                   ELSE [on |-> TRUE,
                         runFailed |-> (hist.runFailed \/ ~Succeeded(ans)),
                         nAlerts |-> hist.nAlerts + Count(AlarmStates(res.calls), "alert"),
                         nNormals |-> hist.nNormals + Count(AlarmStates(res.calls), "normal")]
        /\ alive' \in (IF res.thrown = "none" THEN {TRUE} ELSE BOOLEAN)
        /\ last' = [op |-> "respond", kind |-> AnswerKind(ans),
                    pre |-> sentUnavailableAlarm, thrown |-> res.thrown,
                    afterStop |-> FALSE, issued |-> FALSE, period |-> 0,
                    body |-> IF Succeeded(ans) THEN ans.body ELSE ""]
  /\ UNCHANGED <<globals, app, onStop, timers, nRequests, nStarts, stopped>>

Next ==
  \/ \E props \in Props : start(props)
  \/ stop
  \/ \E t \in 1..Len(timers) : fire(t)
  \/ \E ip \in Addresses, ans \in Answers : respond(ip, ans)

\* the plugin in every host, without the history
InitPlain == Init /\ ~hist.on

Spec == InitPlain /\ [][Next]_vars

\* The history checks: the same plugin and answers in one host (a bound
\* `load`, no status hooks), with the history kept.
InitHistory ==
  Init /\ hist.on /\ globals.load /\ ~app.setProviderStatus /\ ~app.setProviderError

SpecHistory == InitHistory /\ [][Next]_vars

\* The translation checks: the same plugin in one host (a bound `load`, no
\* status hooks), answered with the texts of RecordLights.
InitRecords ==
  Init /\ ~hist.on /\ globals.load /\ ~app.setProviderStatus /\ ~app.setProviderError

NextRecords ==
  \/ \E props \in Props : start(props)
  \/ stop
  \/ \E t \in 1..Len(timers) : fire(t)
  \/ \E ip \in Addresses, ans \in RecordAnswers : respond(ip, ans)

SpecRecords == InitRecords /\ [][NextRecords]_vars

\* =============================================================== claims
Responded == last.op = "respond"

Failed == Responded /\ last.kind \in {"transport", "status"}

Succeeded200 == Responded /\ last.kind = "ok"

HasPrefix(str, prefix) ==
  Len(str) >= Len(prefix) /\ SubSeq(str, 1, Len(prefix)) = prefix

\* C1: a failing tick (transport error or non-200 status) that finds the flag
\* false or unset publishes exactly one alarm observation, its state is
\* "alert" and its path notifications.redhead.daqUnavailable, and the flag
\* is true when the tick ends.
C1_AlertOnFirstFailure ==
  (Failed /\ ~Truthy(last.pre)) =>
     /\ Len(Alarms(calls)) = 1
     /\ AlarmState(Alarms(calls)[1]) = "alert"
     /\ Alarms(calls)[1].delta.updates[1].values[1].path
          = "notifications.redhead.daqUnavailable"
     /\ sentUnavailableAlarm = "true"

\* a non-200 answer arrived after the alarm had been raised and cleared
C1_Witness ==
  Failed /\ last.kind = "status" /\ last.pre = "false" /\ Len(Alarms(calls)) = 1

\* C2: a failing tick that finds the flag already true publishes no alarm
\* observation.
C2_NoAlarmWhileUnavailable ==
  (Failed /\ Truthy(last.pre)) => Alarms(calls) = <<>>

\* C3: a successful tick that finds the flag true publishes exactly one
\* alarm observation, with state "normal" and message "The DAQ module is now
\* available", and the flag is false afterwards.
C3_NormalOnRecovery ==
  (Succeeded200 /\ Truthy(last.pre)) =>
     /\ Len(Alarms(calls)) = 1
     /\ AlarmState(Alarms(calls)[1]) = "normal"
     /\ AlarmMessage(Alarms(calls)[1]) = "The DAQ module is now available"
     /\ sentUnavailableAlarm = "false"

\* a 200 answer arrived while the flag was true
C3_Witness ==
  Succeeded200 /\ last.pre = "true" /\ Len(Alarms(calls)) = 1

\* C4: a successful tick that finds the flag false or unset publishes no
\* alarm observation and leaves the flag as it was; every "normal" in the
\* stream of alarm observations directly follows an "alert".
C4_SuccessWhileAvailableIsSilent ==
  /\ (Succeeded200 /\ ~Truthy(last.pre)) =>
        (Alarms(calls) = <<>> /\ sentUnavailableAlarm = last.pre)
  /\ \A i \in 1..Len(AlarmStream) :
        (AlarmStream[i] = "normal" /\ (i > 1 \/ prevAlarm = "none"))
           => (i > 1 /\ AlarmStream[i - 1] = "alert")

\* a 200 answer found the flag false, the last alarm having been a "normal"
C4_Witness ==
  Succeeded200 /\ last.pre = "false" /\ AlarmStream = <<"normal">>

\* C5: plugin.start issues one immediate fetch, and when it has returned a
\* timer of period refreshRate seconds (5 by default) is armed and its stop
\* handler is registered.
C5_StartFetchesAndArms ==
  last.op = "start" =>
     /\ last.thrown = "none"
     /\ last.issued
     /\ last.period \in {r * 1000 : r \in (RefreshRates \ {0}) \cup {DefaultRefreshRate}}
     /\ Len(timers) > 0
     /\ timers[Len(timers)].armed
     /\ Len(timers) \in Cleared(onStop)

\* C6: while plugin.stop has returned and plugin.start was not called since,
\* no timer is armed and no request is issued; a plugin.stop that follows a
\* plugin.stop, or that precedes every plugin.start, changes nothing.
C6_StopDisarmsAndIsIdempotent ==
  /\ [](stopped => \A t \in 1..Len(timers) : ~timers[t].armed)
  /\ [][(stopped /\ stopped') => nRequests' = nRequests]_vars
  /\ [][(last'.op = "stop" /\ (stopped \/ nStarts = 0)) =>
          UNCHANGED <<onStop, timers, inflight, nRequests, statusMessage,
                      sentUnavailableAlarm, providerStatus>>]_vars

\* plugin.stop was called twice in a row after two timers had been armed
C6_Witness ==
  last.op = "stop" /\ last.afterStop /\ Len(timers) = 2 /\ stopped

\* C7: no app.handleMessage call is made by a callback that runs after
\* plugin.stop has returned.
C7_NoPublishAfterStop ==
  (Responded /\ stopped) => calls = <<>>

\* C8: every failing tick leaves the status message as "error: " followed by
\* the failure message, for a non-200 answer as for a transport error.
C8_ErrorStatusOnEveryFailure ==
  Failed => (last.thrown = "none" /\ HasPrefix(statusMessage, "error: "))

\* C9: no exception escapes a request callback.
C9_NoUncaughtException ==
  Responded => last.thrown = "none"

\* C10: a failing tick disarms no timer and does not end polling.
C10_FailureKeepsPolling ==
  [][(last'.op = "respond" /\ last'.kind \in {"transport", "status"}) =>
        (timers' = timers /\ alive')]_vars

\* C11: every completed tick overwrites the status message with its own
\* outcome: "Connected to <address>" after a successful tick, an "error: "
\* string after a failing one, with or without the host's status hooks.
C11_StatusIsLastOutcome ==
  Responded =>
     /\ Succeeded200 => \E ip \in Addresses : statusMessage = "Connected to " \o ip
     /\ Failed => HasPrefix(statusMessage, "error: ")

\* ----------------------------------------------- batches of the last tick
IsBatch(call) == ~IsAlarm(call)

\* the record deltas published by the latest step, in order
Batches == SelectSeq(calls, IsBatch)

HasSuffix(str, suffix) ==
  Len(str) >= Len(suffix)
  /\ SubSeq(str, Len(str) - Len(suffix) + 1, Len(str)) = suffix

\* the observations of a delta whose path ends in .attr
Obs(call, attr) ==
  SelectSeq(call.delta.updates[1].values, LAMBDA v : HasSuffix(v.path, "." \o attr))

\* the device records of a payload: the records its text denotes
Payload(body) ==
  IF body = "" THEN <<>>
  ELSE CHOOSE b \in RecordLightSeqs : JsonText(b) = body

\* the fields a record's brightness and colour are read from: action for
\* the kind "groups", state otherwise; no field when that member is absent
Effective(light) ==
  LET member == IF globals.hueType = "groups" THEN "action" ELSE "state"
  IN IF Has(light, member) THEN light[member] ELSE <<>>

\* the i-th record of the payload has a batch: the i-th published delta
HasBatch(i) == i <= Len(Batches)

\* C12: a successful tick whose payload has n records makes exactly n record
\* publish calls, one per record, each with a single update.
C12_OneCallPerRecord ==
  Succeeded200 =>
     /\ Len(Batches) = Len(Payload(last.body))
     /\ \A i \in 1..Len(Batches) : Len(Batches[i].delta.updates) = 1

\* C14: every record of the payload whose colormode is present has a batch
\* with one colorMode observation: "hsb", "temperature", "cie" for hs, ct,
\* xy and the sentinel "unrecognized" for anything else.
C14_UnknownModeIsSentinel ==
  Succeeded200 =>
     \A i \in 1..Len(Payload(last.body)) :
        LET st == Effective(Payload(last.body)[i])
        IN TruthyStr(st, "colormode") =>
             /\ HasBatch(i)
             /\ Len(Obs(Batches[i], "colorMode")) = 1
             /\ Obs(Batches[i], "colorMode")[1].value =
                  (CASE st.colormode = "hs" -> "hsb"
                     [] st.colormode = "ct" -> "temperature"
                     [] st.colormode = "xy" -> "cie"
                     [] OTHER -> "unrecognized")

\* C15: every record of the payload that has a ct value has a batch with a
\* temperature observation, whatever its colormode.
C15_TemperatureWheneverCt ==
  Succeeded200 =>
     \A i \in 1..Len(Payload(last.body)) :
        Has(Effective(Payload(last.body)[i]), "ct") =>
           (HasBatch(i) /\ Len(Obs(Batches[i], "temperature")) = 1)

\* C16: the entity kind is defined whenever a record is translated; a
\* "groups" record is published under the segment groups with state =
\* state.any_on and brightness from action, any other record with state =
\* state.on and brightness from state.
C16_KindSelectsFields ==
  Succeeded200 =>
     \A i \in 1..Len(Payload(last.body)) :
        LET light == Payload(last.body)[i]
        IN /\ globals.hueType # "<unbound>"
           /\ Has(light, "state") =>
                /\ HasBatch(i)
                /\ HasPrefix(Obs(Batches[i], "state")[1].path,
                             base \o "." \o globals.hueType \o ".")
                /\ Obs(Batches[i], "state")[1].value =
                     (IF globals.hueType = "groups" THEN Get(light.state, "any_on")
                      ELSE Get(light.state, "on"))
                /\ Obs(Batches[i], "dimmingLevel")[1].value =
                     Quot(Effective(light), "bri", 1, 255)

\* C18: every record of the payload has a batch with exactly one state, one
\* dimmingLevel and one meta observation; hue and saturation come together,
\* and only with a colorMode observation and a record whose hue and sat are
\* both not 0.
C18_BatchShape ==
  Succeeded200 =>
     \A i \in 1..Len(Payload(last.body)) :
        LET st == Effective(Payload(last.body)[i])
        IN /\ HasBatch(i)
           /\ Len(Obs(Batches[i], "state")) = 1
           /\ Len(Obs(Batches[i], "dimmingLevel")) = 1
           /\ Len(Obs(Batches[i], "meta")) = 1
           /\ Len(Obs(Batches[i], "hue")) = Len(Obs(Batches[i], "saturation"))
           /\ Len(Obs(Batches[i], "hue")) <= 1
           /\ Len(Obs(Batches[i], "hue")) = 1 =>
                /\ Len(Obs(Batches[i], "colorMode")) = 1
                /\ TruthyNum(st, "hue")
                /\ TruthyNum(st, "sat")

NormalPublished == \E i \in 1..Len(calls) : IsAlarm(calls[i]) /\ AlarmState(calls[i]) = "normal"

\* C13 as claimed: the flag is false or unset when a plugin.start that
\* begins a run (the first one, or one after plugin.stop) returns, and a
\* successful tick publishes a "normal" alarm only if a tick failed since
\* the latest plugin.start.
C13_FlagFalseAtRunStart ==
  /\ [][((last.op = "start")' /\ (stopped \/ nStarts = 0))
          => ~Truthy(sentUnavailableAlarm')]_vars
  /\ [][(Succeeded200 /\ NormalPublished)' => hist.runFailed]_vars

\* C13 as amended: the flag is unset at construction and plugin.start and
\* plugin.stop leave it as it is; a successful tick publishes a "normal"
\* alarm exactly when it finds the flag true, whichever run set it.
C13_FlagSurvivesRestart ==
  /\ [](last.op = "init" => sentUnavailableAlarm = UNDEFINED)
  /\ [][(last.op \in {"start", "stop"})' => sentUnavailableAlarm' = sentUnavailableAlarm]_vars
  /\ [][Succeeded200' => (NormalPublished' <=> Truthy(sentUnavailableAlarm))]_vars

\* a successful tick published "normal" though no tick had failed since the
\* latest plugin.start
C13_Witness ==
  Succeeded200 /\ NormalPublished /\ ~hist.runFailed /\ nStarts = 2

\* C19: after every completed callback the flag is true exactly when that
\* answer was a failure, and no more "normal" than "alert" alarm
\* observations have been published, also while other requests are in flight.
C19_CallbacksAreAtomic ==
  /\ Responded => (Truthy(sentUnavailableAlarm) <=> Failed)
  /\ hist.nNormals <= hist.nAlerts

\* a callback ran, publishing a "normal", while another request was in flight
C19_Witness ==
  /\ Succeeded200 /\ NormalPublished
  /\ \E ip \in Addresses : inflight[ip] >= 1
  /\ hist.nAlerts = 1 /\ hist.nNormals = 1
====
